---- MODULE Spec2Model ----
(***************************************************************************)
(* Model of feeds/rss_reader.py: main reads the feed URL list, then        *)
(* get_recent_articles walks the list, fetching and parsing one feed at a  *)
(* time, normalises every entry into an Article, keeps the recent ones     *)
(* that carry a link, and main sorts the result and hands it to the        *)
(* renderer.                                                               *)
(*                                                                         *)
(* Times are whole hours since 1970-01-01 00:00.  A Python dict is a       *)
(* function whose DOMAIN is the set of keys that are present.  A Python    *)
(* str whose characters matter (a line of the URL file) is a tuple of      *)
(* one-character strings.                                                  *)
(***************************************************************************)
EXTENDS Integers, Sequences, FiniteSets, TLC

VARIABLES
    pc,               \* position of the main thread
    feed_urls,        \* main: the lines of the input file, as read
    days_back,        \* main: args.days
    cutoff_date,      \* get_recent_articles: local cutoff_date
    recent_articles,  \* get_recent_articles: the list being assembled
    i,                \* position of the for-loop over feed_urls (1-based)
    feed,             \* local feed: the result of fetch_feed_urllib
    j,                \* position of the for-loop over feed.entries (1-based)
    published_date,   \* local published_date
    article_date,     \* local article_date
    link,             \* local link
    title,            \* local title
    feed_title,       \* local feed_title
    inflight,         \* positions of feed_urls whose urlopen has not returned
    requests,         \* the calls of fetch_feed_urllib made so far, in order
    fetched,          \* per position of feed_urls: what its fetch returned
    articles,         \* main: local articles (empty until assigned)
    rendered          \* the list generate_html_output was called with
                      \* (empty until it is called)

vars == <<pc, feed_urls, days_back, cutoff_date, recent_articles, i, feed, j,
          published_date, article_date, link, title, feed_title, inflight,
          requests, fetched, articles, rendered>>

(***************************************************************************)
(* Bounds of the model.                                                    *)
(***************************************************************************)
\* most lines in the URL file
MaxUrls == 2
\* most entries the feeds fetched in one run hold together
MaxEntries == 3

(***************************************************************************)
(* Values.                                                                 *)
(***************************************************************************)
\* Python's None
None == [none |-> TRUE]
\* a local name that has not been assigned yet (a str local: UnboundStr)
Unbound == [unbound |-> TRUE]
UnboundStr == "<unbound>"
\* a datetime object, reduced to the hour it names
datetime(h) == [hours |-> h]
\* a fetch that has not returned yet
Pending == [pending |-> TRUE]
\* a dict with no keys
EmptyDict == <<>>

\* time.struct_time, reduced to the hour it names and its tm_isdst flag
StructTime(h) == [hours |-> h, isdst |-> 0]

\* 2025-10-04 00:00, the hour named by the default tuple
\* (2025, 10, 4, 0, 0, 0, 5, 277, 0) of entry.get("published_parsed", ...)
FallbackTime == 488760
FallbackTuple == StructTime(FallbackTime)

\* the zone of the machine: standard offset from UTC and, for the dates of
\* the model, the daylight-saving shift in force (hours)
LocalZone == [std |-> 1, dst |-> 1]

\* time.mktime: a struct_time read as local time, tm_isdst = 0 meaning
\* standard time, to seconds since the epoch (here hours)
mktime(st) == st.hours - LocalZone.std

\* datetime.fromtimestamp: the naive local wall-clock time of an instant
fromtimestamp(s) == datetime(s + LocalZone.std + LocalZone.dst)

\* datetime.now(): naive local wall-clock time when the run starts
NowTime == FallbackTime + 36

\* timedelta(days=d), in hours
timedelta(d) == 24 * d

\* dict.get(key, default)
Get(d, key, default) == IF key \in DOMAIN d THEN d[key] ELSE default

\* truth value of a str: non-empty
Truthy(s) == s # ""

(***************************************************************************)
(* Inputs: the URL file, the recency window, what the network returns.     *)
(***************************************************************************)
Newline == "\n"
Whitespace == {" ", "\t", "\r", "\n"}
UrlBodies == {<<"a">>}

\* f.readlines(): every line keeps its line ending; only the last line of a
\* file can lack one
TerminatedLines == {b \o <<Newline>> : b \in UrlBodies}
FileLines ==
    UNION {{ls \in [1..n -> TerminatedLines \cup UrlBodies] :
              \A k \in 1..(n-1) : ls[k] \in TerminatedLines} : n \in 0..MaxUrls}

DaysBackValues == {1, 2}

\* published_parsed values of the entries: two days before the fallback date
\* (always stale), and the hour whose local reading is exactly the cutoff of
\* a one-day window
OldTime == FallbackTime - 48
MidTime == NowTime - 24 - LocalZone.dst

\* entries as feedparser returns them: any of the keys can be missing,
\* link can be empty, published_parsed can be present with the value None
\* (feedparser stores None when it cannot parse the date)
NominalEntry == [title |-> "T", link |-> "L", published_parsed |-> StructTime(MidTime)]
EntryUniverse ==
    { NominalEntry,
      [link |-> "L", published_parsed |-> StructTime(MidTime)],
      [title |-> "T", published_parsed |-> StructTime(MidTime)],
      [title |-> "T", link |-> "", published_parsed |-> StructTime(MidTime)],
      [title |-> "T", link |-> "L"],
      [title |-> "T", link |-> "L", published_parsed |-> None],
      [title |-> "T", link |-> "L", published_parsed |-> StructTime(OldTime)] }

FeedInfos == {[title |-> "F"], EmptyDict}

SeqsUpTo(S, n) == UNION {[1..k -> S] : k \in 0..n}

\* the FeedParserDict values feedparser.parse can return
Feeds(n) == [feed : FeedInfos, entries : SeqsUpTo(EntryUniverse, n)]

RECURSIVE SumLen(_, _)
SumLen(f, n) ==
    IF n = 0 THEN 0
    ELSE SumLen(f, n - 1) + (IF "entries" \in DOMAIN f[n] THEN Len(f[n].entries) ELSE 0)

\* entries of the feeds fetched so far in the run
EntriesSoFar == SumLen(fetched, Len(fetched))

(***************************************************************************)
(* The Article dataclass and the per-entry steps of get_recent_articles.   *)
(***************************************************************************)
Article(t, l, p, f, ft) ==
    [title |-> t, link |-> l, published |-> p, feed |-> f, feed_title |-> ft]

\* the test of line 84 with "or" in place of "and"
Passes_Or(l, d, cutoff) == Truthy(l) \/ d.hours >= cutoff.hours

\* line 84: if link and article_date >= cutoff_date
Passes(l, d, cutoff) == Truthy(l) /\ d.hours >= cutoff.hours

\* an append that skips an Article equal to one already collected
AppendArticle_Dedup(list, a) ==
    IF \E k \in 1..Len(list) : list[k] = a THEN list ELSE Append(list, a)

\* line 85: recent_articles.append(...)
AppendArticle(list, a) == Append(list, a)

(***************************************************************************)
(* list.sort(key=lambda a: a.published, reverse=True): stable, so equal    *)
(* keys keep their order also with reverse=True.                           *)
(***************************************************************************)
RECURSIVE InsertDesc(_, _)
InsertDesc(s, a) ==
    IF s = <<>> THEN <<a>>
    ELSE IF Head(s).published.hours >= a.published.hours
         THEN <<Head(s)>> \o InsertDesc(Tail(s), a)
         ELSE <<a>> \o s

RECURSIVE SortFrom(_, _)
SortFrom(done, rest) ==
    IF rest = <<>> THEN done
    ELSE SortFrom(InsertDesc(done, Head(rest)), Tail(rest))

\* an ascending stable sort followed by a reversal: sorted descending, but
\* equal keys end up in reverse order
RECURSIVE InsertAsc(_, _)
InsertAsc(s, a) ==
    IF s = <<>> THEN <<a>>
    ELSE IF Head(s).published.hours <= a.published.hours
         THEN <<Head(s)>> \o InsertAsc(Tail(s), a)
         ELSE <<a>> \o s

RECURSIVE SortAscFrom(_, _)
SortAscFrom(done, rest) ==
    IF rest = <<>> THEN done
    ELSE SortAscFrom(InsertAsc(done, Head(rest)), Tail(rest))

SortAscThenReverse(s) ==
    LET asc == SortAscFrom(<<>>, s)
    IN  [k \in 1..Len(asc) |-> asc[Len(asc) + 1 - k]]

SortByPublishedDesc(s) == SortFrom(<<>>, s)

(***************************************************************************)
(* Initial state: main has parsed its arguments and read the URL file.     *)
(***************************************************************************)
Init ==
    /\ pc = "start"
    /\ feed_urls \in FileLines
    /\ days_back \in DaysBackValues
    /\ cutoff_date = Unbound
    /\ recent_articles = <<>>
    /\ i = 1
    /\ feed = Unbound
    /\ j = 1
    /\ published_date = Unbound
    /\ article_date = Unbound
    /\ link = UnboundStr
    /\ title = UnboundStr
    /\ feed_title = UnboundStr
    /\ inflight = {}
    /\ requests = <<>>
    /\ fetched = [p \in 1..Len(feed_urls) |-> Pending]
    /\ articles = <<>>
    /\ rendered = <<>>

(***************************************************************************)
(* Actions.                                                                *)
(***************************************************************************)
\* lines 187, 64-65: main calls get_recent_articles, which computes the cutoff
ComputeCutoff ==
    /\ pc = "start"
    /\ cutoff_date' = datetime(NowTime - timedelta(days_back))
    /\ recent_articles' = <<>>
    /\ i' = 1
    /\ pc' = "loop"
    /\ UNCHANGED <<feed_urls, days_back, feed, j, published_date, article_date,
                   link, title, feed_title, inflight, requests, fetched,
                   articles, rendered>>

\* a fan-out that opens every remaining url at once
StartFetch_All ==
    /\ pc = "loop"
    /\ i <= Len(feed_urls)
    /\ requests' = Append(requests, [pos |-> i, url |-> feed_urls[i]])
    /\ inflight' = inflight \cup (i..Len(feed_urls))
    /\ pc' = "fetching"
    /\ UNCHANGED <<feed_urls, days_back, cutoff_date, recent_articles, i, feed,
                   j, published_date, article_date, link, title, feed_title,
                   fetched, articles, rendered>>

\* lines 67-68, 38-39: the loop takes the next url and fetch_feed_urllib
\* opens it
StartFetch ==
    /\ pc = "loop"
    /\ i <= Len(feed_urls)
    /\ requests' = Append(requests, [pos |-> i, url |-> feed_urls[i]])
    /\ inflight' = inflight \cup {i}
    /\ pc' = "fetching"
    /\ UNCHANGED <<feed_urls, days_back, cutoff_date, recent_articles, i, feed,
                   j, published_date, article_date, link, title, feed_title,
                   fetched, articles, rendered>>

\* a fetch failure that is not caught and ends the run
FetchFail_Abort ==
    /\ pc = "fetching"
    /\ i \in inflight
    /\ inflight' = inflight \ {i}
    /\ feed' = None
    /\ fetched' = [fetched EXCEPT ![i] = None]
    /\ pc' = "raised"
    /\ UNCHANGED <<feed_urls, days_back, cutoff_date, recent_articles, i, j,
                   published_date, article_date, link, title, feed_title,
                   requests, articles, rendered>>

\* lines 51-57, 70-71: urlopen, read or parse raises (URLError or any other
\* Exception); fetch_feed_urllib returns None and the loop continues with
\* the next url
FetchFail ==
    /\ pc = "fetching"
    /\ i \in inflight
    /\ inflight' = inflight \ {i}
    /\ feed' = None
    /\ fetched' = [fetched EXCEPT ![i] = None]
    /\ i' = i + 1
    /\ pc' = "loop"
    /\ UNCHANGED <<feed_urls, days_back, cutoff_date, recent_articles, j,
                   published_date, article_date, link, title, feed_title,
                   requests, articles, rendered>>

\* lines 39-49, 70, 73: the response is read and parsed; the feed has
\* entries, so the loop over them starts
FetchOk ==
    /\ pc = "fetching"
    /\ i \in inflight
    /\ \E f \in Feeds(MaxEntries - EntriesSoFar) :
          /\ feed' = f
          /\ fetched' = [fetched EXCEPT ![i] = f]
    /\ inflight' = inflight \ {i}
    /\ j' = 1
    /\ pc' = "entries"
    /\ UNCHANGED <<feed_urls, days_back, cutoff_date, recent_articles, i,
                   published_date, article_date, link, title, feed_title,
                   requests, articles, rendered>>

\* lines 73-87: one entry of the feed.  time.mktime(None) raises TypeError,
\* which nothing in get_recent_articles or main catches.
ProcessEntry ==
    /\ pc = "entries"
    /\ j <= Len(feed.entries)
    /\ LET entry == feed.entries[j]
           pd == Get(entry, "published_parsed", FallbackTuple)
       IN  /\ published_date' = pd
           /\ IF pd = None
              THEN /\ pc' = "raised"
                   /\ UNCHANGED <<article_date, link, title, feed_title,
                                  recent_articles, j>>
              ELSE LET ad == fromtimestamp(mktime(pd))
                       l  == Get(entry, "link", "")
                       t  == Get(entry, "title", "No title")
                       ft == Get(feed.feed, "title", "Unknown feed")
                   IN  /\ article_date' = ad
                       /\ link' = l
                       /\ title' = t
                       /\ feed_title' = ft
                       /\ recent_articles' =
                            IF Passes(l, ad, cutoff_date)
                            THEN AppendArticle(recent_articles,
                                               Article(t, l, ad, feed_urls[i], ft))
                            ELSE recent_articles
                       /\ j' = j + 1
                       /\ pc' = "entries"
    /\ UNCHANGED <<feed_urls, days_back, cutoff_date, i, feed, inflight,
                   requests, fetched, articles, rendered>>

\* line 89: the entries of the feed are exhausted; sleep, then the next url
Sleep ==
    /\ pc = "entries"
    /\ j > Len(feed.entries)
    /\ i' = i + 1
    /\ pc' = "loop"
    /\ UNCHANGED <<feed_urls, days_back, cutoff_date, recent_articles, feed, j,
                   published_date, article_date, link, title, feed_title,
                   inflight, requests, fetched, articles, rendered>>

\* a return inside the loop body: the list is returned before the loop is
\* exhausted
Return_Early ==
    /\ pc = "loop"
    /\ articles' = recent_articles
    /\ pc' = "sort"
    /\ UNCHANGED <<feed_urls, days_back, cutoff_date, recent_articles, i, feed,
                   j, published_date, article_date, link, title, feed_title,
                   inflight, requests, fetched, rendered>>

\* lines 91, 187: the loop over feed_urls is exhausted; the list is returned
\* to main
Return ==
    /\ pc = "loop"
    /\ i > Len(feed_urls)
    /\ articles' = recent_articles
    /\ pc' = "sort"
    /\ UNCHANGED <<feed_urls, days_back, cutoff_date, recent_articles, i, feed,
                   j, published_date, article_date, link, title, feed_title,
                   inflight, requests, fetched, rendered>>

\* line 188: articles.sort(key=lambda a: a.published, reverse=True)
Sort ==
    /\ pc = "sort"
    /\ articles' = SortByPublishedDesc(articles)
    /\ pc' = "render"
    /\ UNCHANGED <<feed_urls, days_back, cutoff_date, recent_articles, i, feed,
                   j, published_date, article_date, link, title, feed_title,
                   inflight, requests, fetched, rendered>>

\* line 190: generate_html_output(articles, args.output, args.days)
Render ==
    /\ pc = "render"
    /\ rendered' = articles
    /\ pc' = "done"
    /\ UNCHANGED <<feed_urls, days_back, cutoff_date, recent_articles, i, feed,
                   j, published_date, article_date, link, title, feed_title,
                   inflight, requests, fetched, articles>>

Next ==
    \/ ComputeCutoff
    \/ StartFetch
    \/ FetchFail
    \/ FetchOk
    \/ ProcessEntry
    \/ Sleep
    \/ Return
    \/ Sort
    \/ Render

Spec == Init /\ [][Next]_vars

\* the interpreter runs the single thread of main until it returns or raises
FairSpec == Spec /\ WF_vars(Next)

TypeOK ==
    /\ pc \in {"start", "loop", "fetching", "entries", "raised", "sort", "render", "done"}
    /\ i \in 1..(Len(feed_urls) + 1)
    /\ inflight \subseteq 1..Len(feed_urls)

(***************************************************************************)
(* get_recent_articles as a function of its inputs: the url list, what the *)
(* fetch of each url returns (None or a parsed feed) and the cutoff.  The  *)
(* result is the returned list, or the uncaught exception.                 *)
(***************************************************************************)
Returned(list) == [raised |-> FALSE, value |-> list]
Raised == [raised |-> TRUE, value |-> "TypeError"]

\* lines 73-87
RECURSIVE RunEntries(_, _, _, _, _)
RunEntries(acc, entries, url, info, cutoff) ==
    IF entries = <<>> THEN Returned(acc)
    ELSE LET entry == Head(entries)
             pd == Get(entry, "published_parsed", FallbackTuple)
         IN  IF pd = None THEN Raised
             ELSE LET ad == fromtimestamp(mktime(pd))
                      l  == Get(entry, "link", "")
                      t  == Get(entry, "title", "No title")
                      ft == Get(info, "title", "Unknown feed")
                  IN  RunEntries(IF Passes(l, ad, cutoff)
                                 THEN AppendArticle(acc, Article(t, l, ad, url, ft))
                                 ELSE acc,
                                 Tail(entries), url, info, cutoff)

\* lines 67-91
RECURSIVE RunFeeds(_, _, _, _)
RunFeeds(acc, urls, responses, cutoff) ==
    IF urls = <<>> THEN Returned(acc)
    ELSE IF Head(responses) = None
         THEN RunFeeds(acc, Tail(urls), Tail(responses), cutoff)
         ELSE LET r == RunEntries(acc, Head(responses).entries, Head(urls),
                                  Head(responses).feed, cutoff)
              IN  IF r.raised THEN Raised
                  ELSE RunFeeds(r.value, Tail(urls), Tail(responses), cutoff)

\* lines 60-91
get_recent_articles(urls, responses, days) ==
    RunFeeds(<<>>, urls, responses, datetime(NowTime - timedelta(days)))

(***************************************************************************)
(* Vocabulary of the properties.                                           *)
(***************************************************************************)
Positions == 1..Len(feed_urls)
AfterReturn == {"sort", "render", "done"}
Finished == {"done", "raised"}

Resolved(p) == fetched[p] # Pending
Failed(p) == fetched[p] = None
Succeeded(p) == Resolved(p) /\ ~Failed(p)
AllResolved == inflight = {} /\ \A p \in Positions : Resolved(p)

EndsInWhitespace(s) == Len(s) > 0 /\ s[Len(s)] \in Whitespace

\* number of calls of fetch_feed_urllib for position p
Attempts(p) == Cardinality({k \in 1..Len(requests) : requests[k].pos = p})

\* the published time of an entry as the Article records it
PublishedOf(e) ==
    IF "published_parsed" \in DOMAIN e
    THEN fromtimestamp(mktime(e.published_parsed))
    ELSE fromtimestamp(mktime(FallbackTuple))

\* number of entries of position p the loop has been through
Processed(p) ==
    IF ~Succeeded(p) THEN 0
    ELSE IF p < i THEN Len(fetched[p].entries)
    ELSE IF p = i /\ pc \in {"entries", "raised"} THEN j - 1
    ELSE 0

\* the entry the loop body last ran on, when there is one
HasLastEntry == (pc = "entries" /\ j > 1) \/ pc = "raised"
LastEntry == IF pc = "raised" THEN feed.entries[j] ELSE feed.entries[j - 1]

LinkedAndRecent(list) ==
    \A k \in 1..Len(list) : list[k].link # "" /\ list[k].published.hours >= cutoff_date.hours

Occurrences(list, a) == Cardinality({k \in 1..Len(list) : list[k] = a})

Injections(n) == {f \in [1..n -> 1..n] : \A x, y \in 1..n : x # y => f[x] # f[y]}

(***************************************************************************)
(* Properties.                                                             *)
(***************************************************************************)
\* C1: in every state, every Article of the collection being assembled, of
\* the list returned to main and of the list handed to the renderer has a
\* non-empty link and a published time >= the cutoff of the run.
C1_LinkedAndRecent ==
    /\ LinkedAndRecent(recent_articles)
    /\ pc \in AfterReturn => LinkedAndRecent(articles)
    /\ pc = "done" => LinkedAndRecent(rendered)

\* C1 witness: a finished run whose feeds held an entry that was kept and an
\* entry that was dropped.
C1_Witness ==
    /\ pc = "done"
    /\ Len(rendered) >= 1
    /\ EntriesSoFar > Len(rendered)

\* C2: a url whose fetch fails adds nothing and does not end the run: what
\* the run returns (or the exception it ends with) is what
\* get_recent_articles gives on the urls whose fetch did not fail, with the
\* same responses.
GoodPositions ==
    SelectSeq([p \in Positions |-> p], LAMBDA p : Succeeded(p))
GoodUrls == [k \in 1..Len(GoodPositions) |-> feed_urls[GoodPositions[k]]]
GoodResponses == [k \in 1..Len(GoodPositions) |-> fetched[GoodPositions[k]]]
C2_FailureIsolation ==
    /\ pc \in AfterReturn =>
         get_recent_articles(GoodUrls, GoodResponses, days_back)
           = Returned(recent_articles)
    /\ pc = "raised" =>
         /\ Succeeded(i)
         /\ get_recent_articles(GoodUrls, GoodResponses, days_back) = Raised

\* C2 witness: a finished run in which a fetch failed, a later fetch
\* succeeded and an Article was collected.
C2_Witness ==
    /\ pc = "done"
    /\ Len(rendered) >= 1
    /\ \E p, q \in Positions : p < q /\ Failed(p) /\ Succeeded(q)

\* C3 (as claimed): no error raised inside fetch, parse, normalise or filter
\* keeps the run from reaching the renderer.
C3_NoUncaughtError == pc # "raised"

C5_Barrier ==
    [][ /\ pc' \in AfterReturn => AllResolved'
        /\ pc \in AfterReturn =>
             /\ recent_articles' = recent_articles
             /\ Len(articles') = Len(articles) ]_vars

\* C5 witness: the sort has run after one fetch failed and another succeeded.
C5_Witness ==
    /\ pc = "render"
    /\ \E p, q \in Positions : Failed(p) /\ Succeeded(q)
    /\ Len(articles) >= 1

\* C6: the list handed to the renderer is a rearrangement of the returned
\* list, in non-increasing order of published, and Articles with equal
\* published keep the order they had in the returned list.
C6_StableDescending ==
    pc = "done" =>
      /\ Len(rendered) = Len(recent_articles)
      /\ \A k \in 1..(Len(rendered) - 1) :
            rendered[k].published.hours >= rendered[k + 1].published.hours
      /\ \E f \in Injections(Len(rendered)) :
            /\ \A k \in 1..Len(rendered) : rendered[k] = recent_articles[f[k]]
            /\ \A k, l \in 1..Len(rendered) :
                  (k < l /\ rendered[k].published = rendered[l].published)
                     => f[k] < f[l]

\* C6 witness: the renderer got a list the sort had to reorder, holding two
\* different Articles with the same published time.
C6_Witness ==
    /\ pc = "done"
    /\ rendered # recent_articles
    /\ \E k, l \in 1..Len(rendered) :
          /\ k < l
          /\ rendered[k].published = rendered[l].published
          /\ rendered[k] # rendered[l]

\* C7 (as claimed): the entry the loop body last ran on, if it has no title,
\* gave title "No title"; if its feed has no title, gave feed_title
\* "Unknown feed"; if it has no parseable publish time (key missing, or
\* present with None), raised no error, got the fallback timestamp and was
\* kept iff it passes the link and cutoff test.
C7_Defaulting ==
    HasLastEntry =>
      LET e == LastEntry
          fallback == fromtimestamp(mktime(FallbackTuple))
      IN  /\ ("published_parsed" \notin DOMAIN e \/ e.published_parsed = None) =>
                /\ pc # "raised"
                /\ article_date = fallback
                /\ (link # "" /\ fallback.hours >= cutoff_date.hours) =>
                      /\ Len(recent_articles) >= 1
                      /\ recent_articles[Len(recent_articles)].published = fallback
          /\ pc # "raised" =>
                /\ "title" \notin DOMAIN e => title = "No title"
                /\ "title" \notin DOMAIN feed.feed => feed_title = "Unknown feed"

\* C8 (as claimed): no url passed to the fetcher and no source url recorded
\* on an Article ends in whitespace or a newline.
C8_UrlsStripped ==
    /\ \A k \in 1..Len(requests) : ~EndsInWhitespace(requests[k].url)
    /\ \A k \in 1..Len(recent_articles) : ~EndsInWhitespace(recent_articles[k].feed)

\* C9: in every state the collection holds exactly the entries gone through
\* so far that have a non-empty link and a published time >= cutoff, once
\* per occurrence: nothing else is dropped and equal Articles are all kept.
QualifyingSoFar ==
    {q \in Positions \X (1..MaxEntries + 1) :
        /\ q[2] <= Processed(q[1])
        /\ LET e == fetched[q[1]].entries[q[2]]
           IN  /\ "link" \in DOMAIN e
               /\ e.link # ""
               /\ PublishedOf(e).hours >= cutoff_date.hours}
NormalisedAt(q) ==
    LET e == fetched[q[1]].entries[q[2]]
    IN  Article(IF "title" \in DOMAIN e THEN e.title ELSE "No title",
                e.link, PublishedOf(e), feed_urls[q[1]],
                IF "title" \in DOMAIN fetched[q[1]].feed
                THEN fetched[q[1]].feed.title ELSE "Unknown feed")
C9_ExactlyTheQualifying ==
    /\ Len(recent_articles) = Cardinality(QualifyingSoFar)
    /\ \A q \in QualifyingSoFar :
          Occurrences(recent_articles, NormalisedAt(q))
            = Cardinality({r \in QualifyingSoFar : NormalisedAt(r) = NormalisedAt(q)})
    /\ pc \in AfterReturn => \A p \in Positions :
          Succeeded(p) => Processed(p) = Len(fetched[p].entries)

\* C9 witness: a finished run that kept two equal Articles and dropped an
\* entry.
C9_Witness ==
    /\ pc = "done"
    /\ \E k, l \in 1..Len(recent_articles) :
          k < l /\ recent_articles[k] = recent_articles[l]
    /\ EntriesSoFar > Len(recent_articles)

\* C10 (as claimed): no url is fetched more than once, when the run has
\* ended every url of the list has been fetched exactly once, and the cutoff
\* never changes once it is computed.
C10_OncePerUrl ==
    [][ /\ \A p \in Positions : Attempts(p)' <= 1
        /\ pc' \in Finished => \A p \in Positions : Attempts(p)' = 1
        /\ pc # "start" => cutoff_date' = cutoff_date ]_vars
====
